---- MODULE Spec2Model ----
(***************************************************************************)
(* Model of silence.py (mythcommflag-silence): main() as a sequential      *)
(* state machine.  Every external collaborator (the MythTV database, the   *)
(* backend, the storage group, the process table, the detector's output)   *)
(* is an input chosen nondeterministically at the step that calls it.      *)
(***************************************************************************)
EXTENDS Integers, Sequences, FiniteSets, TLC

\* ------------------------------------------------------------------ bounds
\* The longest detector output (number of lines before end-of-stream).
MaxLines == 3

\* The most comma-separated fields of a --preset string.
MaxFields == 6
\* The most lines of a preset file.
MaxFileLines == 2

\* ------------------------------------------------------- program constants
\* rec.commflagged values: 0 not flagged, 2 in progress, 1 flagged.
COMM_FLAG_NOT_FLAGGED == 0
COMM_FLAG_PROCESSING == 2
COMM_FLAG_DONE == 1
\* Job status values: the job as queued/running, 272 (finished), job.ERRORED.
JOB_RUNNING == 4
JOB_FINISHED == 272
JOB_ERRORED == 304
\* rec.markup.MARK_COMM_START / MARK_COMM_END
MARK_COMM_START == 4
MARK_COMM_END == 5
\* The mark the library closes an open cut with ("to the end of the show").
OPEN_END == 9999999

\* --------------------------------------------------------- detector output
\* A line is a sequence of atoms: one-character strings, and the tag words
\* "cut", "info", "debug", "err", "zap" standing for those character runs.
Digits == {"0", "1", "2", "3", "4", "5", "6", "7", "8", "9"}

DigitVal(d) ==
  CASE d = "0" -> 0 [] d = "1" -> 1 [] d = "2" -> 2 [] d = "3" -> 3
    [] d = "4" -> 4 [] d = "5" -> 5 [] d = "6" -> 6 [] d = "7" -> 7
    [] d = "8" -> 8 [] d = "9" -> 9

\* The lines the detector may print (silence.cpp's log lines, and the
\* malformed ones the protocol does not exclude).
DetectorLines ==
  { <<"info", "@", "s">>,                               \* info@s
    <<"err", "@", "s">>,                                \* err@s
    <<"debug", "@", "s", "@", "s">>,                    \* debug@s@s
    <<"zap", "@", "s">>,                                \* unknown tag
    <<"s">>,                                            \* no separator
    <<"cut", "@", "s", " ", "1", "2", "-", "1", "5", "m">>,  \* cut@s 12-15m
    <<"cut", "@", "2", "0", " ", "3", "0">>,            \* cut@20 30
    <<"cut", "@", "7", "-", "9", "-", "3">>,            \* cut@7-9-3
    <<"cut", "@", "s", "8">>,                           \* one number only
    <<"cut", "@", "s">> }                               \* no number

\* line.split('@', 1): the index of the first '@', 0 when there is none.
RECURSIVE FirstAt(_, _)
FirstAt(line, i) ==
  IF i > Len(line) THEN 0
  ELSE IF line[i] = "@" THEN i
  ELSE FirstAt(line, i + 1)

\* The list line.split('@', 1) returns: one part, or two.
Split(line) ==
  LET i == FirstAt(line, 1)
  IN IF i = 0 THEN <<line>>
     ELSE <<SubSeq(line, 1, i - 1), SubSeq(line, i + 1, Len(line))>>

\* re.findall('\d+', info), each run converted by int(): scan left to right,
\* cur is the value of the run being read (-1: not in a run).
RECURSIVE FindAllFrom(_, _, _, _)
FindAllFrom(info, i, cur, acc) ==
  IF i > Len(info)
    THEN IF cur >= 0 THEN Append(acc, cur) ELSE acc
  ELSE IF info[i] \in Digits
    THEN FindAllFrom(info, i + 1,
                     (IF cur >= 0 THEN cur * 10 ELSE 0) + DigitVal(info[i]), acc)
  ELSE FindAllFrom(info, i + 1, -1,
                   IF cur >= 0 THEN Append(acc, cur) ELSE acc)

\* findall with the pattern '\d' in place of '\d+': every digit a run.
RECURSIVE FindAll_SingleDigits(_)
FindAll_SingleDigits(info) ==
  IF info = <<>> THEN <<>>
  ELSE (IF Head(info) \in Digits THEN <<DigitVal(Head(info))>> ELSE <<>>)
         \o FindAll_SingleDigits(Tail(info))

FindAll(info) == FindAllFrom(info, 1, -1, <<>>)

\* The level dictionary: the logging level of each known tag.
Level ==
  (<<"info">> :> "INFO") @@ (<<"debug">> :> "DEBUG") @@ (<<"err">> :> "ERR")

\* ------------------------------------------------------------ skip list
\* Insert mark m into the list of marks sorted by position (stable).
RECURSIVE SortedInsert(_, _)
SortedInsert(s, m) ==
  IF s = <<>> THEN <<m>>
  ELSE IF m.mark < Head(s).mark THEN <<m>> \o s
  ELSE <<Head(s)>> \o SortedInsert(Tail(s), m)

RECURSIVE SortMarks(_)
SortMarks(s) ==
  IF s = <<>> THEN <<>>
  ELSE SortedInsert(SortMarks(SubSeq(s, 1, Len(s) - 1)), s[Len(s)])

\* The library's list builder: walk the marks in position order, open a cut
\* at a START when none is open, close it at the next END.
RECURSIVE BuildList(_, _, _)
BuildList(s, start, stop) ==
  IF s = <<>>
    THEN [start |-> start,
          stop |-> IF Len(start) > Len(stop) THEN Append(stop, OPEN_END) ELSE stop]
  ELSE LET m == Head(s)
       IN IF m.type = MARK_COMM_START /\ Len(start) = Len(stop)
            THEN BuildList(Tail(s), Append(start, m.mark), stop)
          ELSE IF m.type = MARK_COMM_END /\ Len(start) = Len(stop) + 1
            THEN BuildList(Tail(s), start, Append(stop, m.mark))
          ELSE BuildList(Tail(s), start, stop)

\* rec.markup.getskiplist(): the (start, end) pairs of the markup.
GetSkipList(m) ==
  LET b == BuildList(SortMarks(m), <<>>, <<>>)
  IN [i \in 1..Len(b.start) |-> <<b.start[i], b.stop[i]>>]

\* FormatSkipList with the two kinds the wrong way round.
FormatSkipList_Swapped(m) ==
  LET sl == GetSkipList(m)
  IN [i \in 1..Len(sl) |-> <<sl[i][1], MARK_COMM_END, sl[i][2], MARK_COMM_START>>]

\* '%d:%d,%d:%d' % (x, MARK_COMM_START, y, MARK_COMM_END) for each pair.
FormatSkipList(m) ==
  LET sl == GetSkipList(m)
  IN [i \in 1..Len(sl) |-> <<sl[i][1], MARK_COMM_START, sl[i][2], MARK_COMM_END>>]

\* rec.markup.append(mark, type, None)
MarkupAppend(m, mark, type) == Append(m, [mark |-> mark, type |-> type])


\* ---------------------------------------------------------------- presets
\* PRESET.argname and PRESET.argval (lines 39-40); the values are kept in
\* hundredths: -75, 0.16, 6, 120, 120, 0.48.
argname == <<"thresh", "minquiet", "mindetect", "minbreak", "maxsep", "pad">>
argval == <<-7500, 16, 600, 12000, 12000, 48>>

\* line.split(','): the index of the first ',' from i on, 0 when none.
RECURSIVE FirstComma(_, _)
FirstComma(s, i) ==
  IF i > Len(s) THEN 0
  ELSE IF s[i] = "," THEN i
  ELSE FirstComma(s, i + 1)

\* line.split(','): the fields between the commas, at least one.
RECURSIVE SplitComma(_)
SplitComma(s) ==
  LET i == FirstComma(s, 1)
  IN IF i = 0 THEN <<s>>
     ELSE <<SubSeq(s, 1, i - 1)>> \o SplitComma(SubSeq(s, i + 1, Len(s)))

\* str.strip(): leading and trailing blanks removed.
RECURSIVE Strip(_)
Strip(s) ==
  IF s = <<>> THEN s
  ELSE IF s[1] = " " THEN Strip(Tail(s))
  ELSE IF s[Len(s)] = " " THEN Strip(SubSeq(s, 1, Len(s) - 1))
  ELSE s

\* [i.strip() for i in line.split(',')]
Vals(s) == LET f == SplitComma(s) IN [k \in 1..Len(f) |-> Strip(f[k])]

\* The value of a run of decimal digits.
RECURSIVE DigitsVal(_)
DigitsVal(d) ==
  IF d = <<>> THEN 0
  ELSE 10 * DigitsVal(SubSeq(d, 1, Len(d) - 1)) + DigitVal(d[Len(d)])

\* float(v) for the decimal notation: an optional sign, digits with at most
\* one point among them and at least one digit; anything else is a
\* ValueError.  The value is in hundredths (the inputs carry at most two
\* decimals).
Float(v) ==
  LET signed == v # <<>> /\ v[1] \in {"-", "+"}
      body == IF signed THEN Tail(v) ELSE v
      dots == {i \in 1..Len(body) : body[i] = "."}
      dot == IF dots = {} THEN Len(body) + 1 ELSE CHOOSE i \in dots : TRUE
      whole == SubSeq(body, 1, dot - 1)
      frac == SubSeq(SubSeq(body, dot + 1, Len(body)) \o <<"0", "0">>, 1, 2)
      ok == /\ \A i \in 1..Len(body) : body[i] \in Digits \cup {"."}
            /\ Cardinality(dots) <= 1
            /\ \E i \in 1..Len(body) : body[i] \in Digits
      abs == IF ok THEN 100 * DigitsVal(whole) + DigitsVal(frac) ELSE 0
  IN [ok |-> ok, val |-> IF signed /\ v[1] = "-" THEN 0 - abs ELSE abs]

\* PRESET._validate: <<>> stands for None, <<x>> for the float x.
\* map() hands None to it for the names past the end of vals.
Validate(vals, k) ==
  IF k > Len(vals) \/ vals[k] = <<>> THEN <<>>
  ELSE IF Float(vals[k]).ok THEN <<Float(vals[k]).val>>
  ELSE <<>>

\* argdict.update(v for v in validargs if v[1] is not None), validargs being
\* map(self._validate, self.argname, vals) for the vals handed in.
Update(argdict, vals) ==
  [k \in 1..Len(argname) |->
     IF Validate(vals, k) = <<>> THEN argdict[k] ELSE Validate(vals, k)[1]]

\* vals[from : from + len(argname)]
Slice(vals, from) ==
  SubSeq(vals, from, IF Len(vals) < from + Len(argname) - 1
                       THEN Len(vals) ELSE from + Len(argname) - 1)

\* getFromArg taking the values from the second field on.
GetFromArg_SkipsFirst(argdict, text) ==
  IF text = <<>> THEN argdict
  ELSE Update(argdict, Slice(Vals(text), 2))

\* PRESET.getFromArg (lines 59-67): the argdict after it.
GetFromArg(argdict, text) ==
  IF text = <<>> THEN argdict
  ELSE Update(argdict, Slice(Vals(text), 1))

\* The letters of the titles, callsigns and patterns, folded by
\* re.IGNORECASE.
Lower(c) ==
  CASE c = "A" -> "a" [] c = "B" -> "b" [] c = "C" -> "c" [] c = "D" -> "d"
    [] OTHER -> c

\* re.compile(pattern, re.IGNORECASE) raises re.error ("nothing to repeat")
\* for a pattern that begins with a repetition.
Compiles(pattern) == pattern = <<>> \/ pattern[1] # "*"

\* pattern.match(s) for a pattern of literal characters and '.': the
\* pattern matches at the start of s, whatever follows.
Match(pattern, s) ==
  /\ Len(pattern) <= Len(s)
  /\ \A i \in 1..Len(pattern) :
       pattern[i] = "." \/ Lower(pattern[i]) = Lower(s[i])

\* The for loop of getFromFile (lines 73-87) from line i on: the exception
\* it raises, and the line it breaks at (0: the else branch, no preset
\* found).
RECURSIVE ScanFrom(_, _, _, _)
ScanFrom(lines, i, title, callsign) ==
  IF i > Len(lines) THEN [raised |-> "none", at |-> 0]
  ELSE LET l == Strip(lines[i])
       IN IF l = <<>> \/ l[1] = "#"
            THEN ScanFrom(lines, i + 1, title, callsign)
          ELSE IF ~Compiles(Vals(l)[1])
            THEN [raised |-> "re.error", at |-> 0]
          ELSE IF Match(Vals(l)[1], title) \/ Match(Vals(l)[1], callsign)
            THEN [raised |-> "none", at |-> i]
          ELSE ScanFrom(lines, i + 1, title, callsign)

\* PRESET.getFromFile (lines 69-93): the exception it lets through, and the
\* argdict after it.  A file that cannot be opened is an IOError, caught.
GetFromFile(argdict, file, title, callsign) ==
  IF ~file.exists THEN [raised |-> "none", argdict |-> argdict]
  ELSE LET r == ScanFrom(file.lines, 1, title, callsign)
       IN [raised |-> r.raised,
           argdict |-> IF r.at = 0 THEN argdict
                       ELSE Update(argdict,
                                   Slice(Vals(Strip(file.lines[r.at])), 2))]

\* ------------------------------------------------------------------ state
VARIABLES
  pc,            \* the statement of main() that runs next
  args,          \* the parsed command line
  job,           \* the local 'job': "unbound", "None" or "Job"
  starttime,     \* the local 'starttime': "unbound", "valid" or "store_true"
  sg,            \* the result of findfile: "unset", "None" or "found"
  param,         \* param.argdict: the six values, in hundredths
  jobStatus,     \* the job record's status column
  jobComment,    \* the job record's comment column
  commflagged,   \* rec.commflagged (the object's field)
  dbCommflagged, \* the recording's commflagged column (persisted)
  markup,        \* rec.markup (the object's list of marks)
  dbMarkup,      \* the recording's persisted markup
  procs,         \* the pipeline processes started so far, in order
  signalled,     \* the processes main() has sent a signal to
  reaped,        \* the processes main() has waited for
  line,          \* the local 'line': what readline() returned last
  linesRead,     \* lines of detector output read so far
  cutsRead,      \* lines read whose tag is 'cut'
  breaks,        \* the local 'breaks'
  sent,          \* the update messages handed to the backend, with its answers
  logged,        \* the last message the event loop has logged
  eof,           \* readline() has returned the empty string
  raised,        \* the exception that reached the top-level handler
  exitCode,      \* the process's exit status, -1 while it runs
  marked,        \* the run has purged the markup and persisted in-progress
  updateLost     \* the last job.update() on the job record raised

vars == <<pc, args, job, starttime, sg, param, jobStatus, jobComment, commflagged,
          dbCommflagged, markup, dbMarkup, procs, signalled, reaped, line,
          linesRead, cutsRead, breaks, sent, logged, eof, raised, exitCode,
          marked, updateLost>>

\* The groups a step leaves alone.
idVars == <<args, job, starttime, sg, param>>
jobVars == <<jobStatus, jobComment, updateLost>>
recVars == <<commflagged, dbCommflagged, markup, dbMarkup, marked>>
loopVars == <<line, linesRead, cutsRead, breaks, sent, logged, eof>>
procVars == <<procs, signalled, reaped>>

\* A skip list left by an earlier run of the flagger.
StaleMarkup ==
  <<[mark |-> 1, type |-> MARK_COMM_START], [mark |-> 2, type |-> MARK_COMM_END]>>

Pipeline == <<"p1", "p2", "p3">>

\* rec.title and channel.callsign of the recording (lines 150-154).
Title == <<"A", "b">>
Callsign == <<"C", "D">>

\* The fields a --preset string is made of: -70, " 0.2" (blank in front),
\* the empty field, 150, and x (no number).
Fields ==
  { <<"-", "7", "0">>, <<" ", "0", ".", "2">>, <<>>, <<"1", "5", "0">>,
    <<"x">> }

\* ','.join(fields)
RECURSIVE Join(_)
Join(fields) ==
  IF Len(fields) = 1 THEN fields[1]
  ELSE fields[1] \o <<",">> \o Join(Tail(fields))

\* The --preset strings: up to MaxFields fields, the empty string among
\* them (no --preset, or an empty one: 'if args.preset' takes both alike).
PresetTexts ==
  {Join(f) : f \in UNION {[1..n -> Fields] : n \in 1..MaxFields}}

\* --preset "-70,0.2,,150,,"
ScenarioA ==
  <<"-", "7", "0", ",", "0", ".", "2", ",", ",", "1", "5", "0", ",", ",">>

\* The lines a preset file is made of.
FileLines ==
  { <<" ">>,                                            \* blank
    <<"#", "A", ",", "-", "7", "0">>,                   \* #A,-70
    <<"a", "b", ",", " ", "-", "7", "0", ",", ",", "x">>,  \* ab, -70,,x
    <<" ", "c", " ", ",", ",", "0", ".", "2">>,         \* " c ,,0.2"
    <<"b", ",", "1", "5", "0">>,                        \* b,150
    <<"*", ",", "-", "7", "0">>,                        \* *,-70
    <<",", ",", ",", "6">>,                             \* ,,,6
    <<"A", ".">> }                                      \* A.

\* --presetfile: not given, or the path of a file that is missing or has up
\* to MaxFileLines lines.
NoFile == [given |-> FALSE, exists |-> FALSE, lines |-> <<>>]
MissingFile == [given |-> TRUE, exists |-> FALSE, lines |-> <<>>]
PresetFiles ==
  {MissingFile} \cup
  {[given |-> TRUE, exists |-> TRUE, lines |-> l] :
     l \in UNION {[1..n -> FileLines] : n \in 0..MaxFileLines}}

\* The preset options of the whole-run specification.
MainPresets ==
  { [preset |-> <<>>, presetfile |-> NoFile],
    [preset |-> ScenarioA, presetfile |-> NoFile],
    [preset |-> <<>>,
     presetfile |-> [given |-> TRUE, exists |-> TRUE,
                     lines |-> << <<"b", ",", "1", "5", "0">>,
                                  <<"*", ",", "-", "7", "0">> >>]] }

\* The preset options of the preset specification: every string alone,
\* every file alone, and every file beside a string.
AllPresets ==
  {[preset |-> t, presetfile |-> NoFile] : t \in PresetTexts \cup {ScenarioA}}
  \cup
  {[preset |-> t, presetfile |-> f] : t \in {<<>>, ScenarioA},
                                      f \in PresetFiles}

Args ==
  {[jobid |-> j, chanid |-> c, starttime |-> t, preset |-> p.preset,
    presetfile |-> p.presetfile] :
     j \in BOOLEAN, c \in BOOLEAN, t \in BOOLEAN, p \in MainPresets}

Init ==
  /\ pc = "connect"
  /\ args \in Args
  /\ job = "unbound"
  /\ starttime = "unbound"
  /\ sg = "unset"
  /\ param = argval
  /\ jobStatus = JOB_RUNNING
  /\ jobComment = [text |-> "", n |-> 0]
  /\ \/ dbCommflagged = COMM_FLAG_NOT_FLAGGED /\ dbMarkup = <<>>
     \/ dbCommflagged = COMM_FLAG_DONE /\ dbMarkup = StaleMarkup
  /\ commflagged = dbCommflagged
  /\ markup = dbMarkup
  /\ procs = <<>>
  /\ signalled = {}
  /\ reaped = {}
  /\ line = <<>>
  /\ logged = [level |-> "none", msg |-> <<>>]
  /\ linesRead = 0
  /\ cutsRead = 0
  /\ breaks = 0
  /\ sent = <<>>
  /\ eof = FALSE
  /\ raised = "none"
  /\ exitCode = -1
  /\ marked = FALSE
  /\ updateLost = FALSE

\* An exception leaves the try block for the handler of line 236.
Raise(e) == pc' = "handler" /\ raised' = e

\* sys.exit(code): SystemExit is not an Exception, the handler does not see it.
Exit(code) == pc' = "exited" /\ exitCode' = code /\ UNCHANGED raised

\* The processes main() has started.
Started == {procs[i] : i \in 1..Len(procs)}

\* The end of main(): p1, p2 and p3 go out of scope, and a Popen object that
\* is dropped polls its process without blocking: the processes that have
\* ended by then, all, some or none of them, are reaped.
CleanUp == reaped' \in SUBSET Started

\* job.update({'status': status, 'comment': comment}) on the job record.
JobUpdate(status, text, n) ==
  /\ jobStatus' = status
  /\ jobComment' = [text |-> text, n |-> n]
  /\ updateLost' = FALSE

\* job.update() raised: nothing is written.
JobUpdateFails == updateLost' = TRUE /\ UNCHANGED <<jobStatus, jobComment>>

\* ------------------------------------------------------------------ steps
\* Lines 120-122: MythDB(), MYLOG(db), BECache(db).
Connect ==
  /\ pc = "connect"
  /\ \/ pc' = "identity" /\ UNCHANGED raised
     \/ Raise("MythDBError")
  /\ UNCHANGED <<idVars, jobVars, recVars, loopVars, procVars, exitCode>>

\* ResolveIdentity with the usage error not ending the run: the run goes on
\* as a manual one.
ResolveIdentity_NoUsageExit ==
  /\ pc = "identity"
  /\ IF args.jobid
       THEN \/ /\ job' = "Job" /\ starttime' = "valid"
               /\ pc' = "lookup" /\ UNCHANGED <<raised, exitCode>>
            \/ /\ Raise("MythError")
               /\ UNCHANGED <<job, starttime, exitCode>>
     ELSE /\ job' = "None"
          /\ starttime' \in {"valid", "store_true"}
          /\ pc' = "lookup" /\ UNCHANGED <<raised, exitCode>>
  /\ UNCHANGED <<args, sg, param, jobVars, recVars, loopVars, procVars>>

\* Lines 125-140: the job id, else the chanid/starttime pair, else usage error.
ResolveIdentity ==
  /\ pc = "identity"
  /\ IF args.jobid
       THEN \/ /\ job' = "Job" /\ starttime' = "valid"
               /\ pc' = "lookup" /\ UNCHANGED <<raised, exitCode>>
            \/ /\ Raise("MythError")
               /\ UNCHANGED <<job, starttime, exitCode>>
     ELSE IF args.chanid /\ args.starttime
       THEN /\ job' = "None"
            /\ starttime' \in {"valid", "store_true"}
            /\ pc' = "lookup" /\ UNCHANGED <<raised, exitCode>>
     ELSE /\ Exit(1)
          /\ UNCHANGED <<job, starttime>>
  /\ UNCHANGED <<args, sg, param, jobVars, recVars, loopVars, procVars>>

\* Lines 143-157: the run key, Recorded() and Channel().
Lookup ==
  /\ pc = "lookup"
  /\ \/ /\ starttime = "valid"
        /\ pc' = "findfile" /\ UNCHANGED raised
     \/ Raise("MythError")
  /\ UNCHANGED <<idVars, jobVars, recVars, loopVars, procVars, exitCode>>

\* FindFile without the sys.exit(1) of line 165: the run goes on to the
\* presets and the pipeline.
FindFile_NoExit ==
  /\ pc = "findfile"
  /\ sg' \in {"found", "None"}
  /\ pc' = "preset"
  /\ IF sg' = "None" /\ job = "Job"
       THEN JobUpdate(JOB_ERRORED, "Couldn't access file", 0)
     ELSE UNCHANGED jobVars
  /\ UNCHANGED <<args, job, starttime, param, recVars, loopVars, procVars, raised, exitCode>>

\* Lines 159-165: findfile(); a missing file ends the run.
FindFile ==
  /\ pc = "findfile"
  /\ \/ /\ sg' = "found"
        /\ pc' = "preset"
        /\ UNCHANGED <<raised, exitCode, jobVars>>
     \/ /\ sg' = "None"
        /\ IF job = "Job"
             THEN \/ /\ JobUpdate(JOB_ERRORED, "Couldn't access file", 0)
                     /\ Exit(1)
                  \/ /\ JobUpdateFails
                     /\ Raise("MythDBError")
                     /\ UNCHANGED exitCode
           ELSE /\ Exit(1)
                /\ UNCHANGED jobVars
  /\ UNCHANGED <<args, job, starttime, param, recVars, loopVars, procVars>>

\* Lines 167-173: the presets; the exception that leaves them, and the
\* argdict after them (as it was, when getFromFile lets an exception
\* through).
Presets(argdict, a) ==
  IF a.preset # <<>>
    THEN [raised |-> "none", argdict |-> GetFromArg(argdict, a.preset)]
  ELSE IF a.presetfile.given
    THEN GetFromFile(argdict, a.presetfile, Title, Callsign)
  ELSE [raised |-> "none", argdict |-> argdict]

\* Lines 167-173: the step of main().
ResolvePreset ==
  /\ pc = "preset"
  /\ \E r \in {Presets(param, args)} :
       /\ param' = r.argdict
       /\ IF r.raised = "none"
            THEN pc' = "spawn" /\ UNCHANGED raised
          ELSE Raise(r.raised)
  /\ UNCHANGED <<args, job, starttime, sg, jobVars, recVars, loopVars,
                 procVars, exitCode>>

\* StartProcess starting the reader each time.
StartProcess_Restarts ==
  /\ pc = "spawn"
  /\ \/ /\ procs' = Append(procs, Pipeline[1])
        /\ pc' = IF Len(procs') = Len(Pipeline) THEN "mark" ELSE "spawn"
        /\ UNCHANGED raised
     \/ /\ Raise("OSError")
        /\ UNCHANGED procs
  /\ UNCHANGED <<idVars, jobVars, recVars, loopVars, exitCode, signalled,
                 reaped>>

\* Lines 176-183: the next of the three Popen() calls.
StartProcess ==
  /\ pc = "spawn"
  /\ \/ /\ procs' = Append(procs, Pipeline[Len(procs) + 1])
        /\ pc' = IF Len(procs') = Len(Pipeline) THEN "mark" ELSE "spawn"
        /\ UNCHANGED raised
     \/ /\ Raise("OSError")
        /\ UNCHANGED procs
  /\ UNCHANGED <<idVars, jobVars, recVars, loopVars, exitCode, signalled,
                 reaped>>

\* MarkInProgress without markup.clean(): the old skip list stays.
MarkInProgress_KeepsMarkup ==
  /\ pc = "mark"
  /\ commflagged' = COMM_FLAG_PROCESSING
  /\ \/ /\ Raise("MythDBError")
        /\ UNCHANGED <<dbCommflagged, marked>>
     \/ /\ dbCommflagged' = COMM_FLAG_PROCESSING
        /\ marked' = TRUE
        /\ pc' = "loop" /\ UNCHANGED raised
  /\ UNCHANGED <<idVars, jobVars, loopVars, procVars, exitCode, markup, dbMarkup>>

\* Lines 186-188: commflagged = 2, markup.clean() (clears and commits),
\* rec.update().
MarkInProgress ==
  /\ pc = "mark"
  /\ commflagged' = COMM_FLAG_PROCESSING
  /\ \/ /\ Raise("MythDBError")          \* clean() raised
        /\ UNCHANGED <<markup, dbMarkup, dbCommflagged, marked>>
     \/ /\ markup' = <<>> /\ dbMarkup' = <<>>
        /\ \/ /\ Raise("MythDBError")    \* update() raised
              /\ UNCHANGED <<dbCommflagged, marked>>
           \/ /\ dbCommflagged' = COMM_FLAG_PROCESSING
              /\ marked' = TRUE
              /\ pc' = "loop" /\ UNCHANGED raised
  /\ UNCHANGED <<idVars, jobVars, loopVars, procVars, exitCode>>

\* logger.log(msg, level) in the event loop.
LogEvent(level, msg) == logged' = [level |-> level, msg |-> msg]

\* AfterAnswer treating an answer other than 'OK' as a failure of the run.
AfterAnswer_Abort(result) ==
  IF result = "OK" THEN pc' = "loop" /\ UNCHANGED raised
  ELSE Raise("MythBEError")

\* Lines 211-213: the backend's answer to the update message; an answer
\* other than 'OK' is logged and the loop goes on.
AfterAnswer(result) == pc' = "loop" /\ UNCHANGED raised

\* Lines 206-211: the message built from the whole skip list of rec.markup.
Notify(m, info) ==
  \/ \E result \in {"OK", "ERROR"} :
       /\ sent' = Append(sent, [skiplist |-> FormatSkipList(m), result |-> result])
       /\ IF result = "OK" THEN LogEvent("INFO", info)
          ELSE LogEvent("ERR", <<"Sending update message to backend failed">>)
       /\ AfterAnswer(result)
  \/ /\ Raise("MythBEError")             \* backendCommand() raised
     /\ LogEvent("INFO", info)
     /\ UNCHANGED sent

\* HandleCut without the rec.update() of line 204: the marks stay in
\* rec.markup until the update at the end of the run.
HandleCut_NoFlush(info) ==
  LET numbers == FindAll(info)
  IN IF Len(numbers) = 0
       THEN /\ Raise("IndexError")
            /\ LogEvent("INFO", info)
            /\ UNCHANGED <<markup, dbMarkup, breaks, sent>>
     ELSE IF Len(numbers) = 1
       THEN /\ markup' = MarkupAppend(markup, numbers[1], MARK_COMM_START)
            /\ Raise("IndexError")
            /\ LogEvent("INFO", info)
            /\ UNCHANGED <<dbMarkup, breaks, sent>>
     ELSE /\ markup' = MarkupAppend(
                         MarkupAppend(markup, numbers[1], MARK_COMM_START),
                         numbers[2], MARK_COMM_END)
          /\ UNCHANGED dbMarkup
          /\ breaks' = breaks + 1
          /\ Notify(markup', info)

\* HandleCut with a rec.update() after each append: the START mark is
\* persisted before numbers[1] is read.
HandleCut_FlushesStart(info) ==
  LET numbers == FindAll(info)
  IN IF Len(numbers) = 0
       THEN /\ Raise("IndexError")
            /\ LogEvent("INFO", info)
            /\ UNCHANGED <<markup, dbMarkup, breaks, sent>>
     ELSE IF Len(numbers) = 1
       THEN /\ markup' = MarkupAppend(markup, numbers[1], MARK_COMM_START)
            /\ dbMarkup' = markup'
            /\ Raise("IndexError")
            /\ LogEvent("INFO", info)
            /\ UNCHANGED <<breaks, sent>>
     ELSE /\ markup' = MarkupAppend(
                         MarkupAppend(markup, numbers[1], MARK_COMM_START),
                         numbers[2], MARK_COMM_END)
          /\ dbMarkup' = markup'
          /\ breaks' = breaks + 1
          /\ Notify(markup', info)

\* Lines 199-213: a 'cut' line.  numbers[0] or numbers[1] raises IndexError
\* when the payload holds fewer than two runs of digits; the START mark of a
\* payload with one run is then in rec.markup only.
HandleCut(info) ==
  LET numbers == FindAll(info)
  IN IF Len(numbers) = 0
       THEN /\ Raise("IndexError")
            /\ LogEvent("INFO", info)
            /\ UNCHANGED <<markup, dbMarkup, breaks, sent>>
     ELSE IF Len(numbers) = 1
       THEN /\ markup' = MarkupAppend(markup, numbers[1], MARK_COMM_START)
            /\ Raise("IndexError")
            /\ LogEvent("INFO", info)
            /\ UNCHANGED <<dbMarkup, breaks, sent>>
     ELSE /\ markup' = MarkupAppend(
                         MarkupAppend(markup, numbers[1], MARK_COMM_START),
                         numbers[2], MARK_COMM_END)
          /\ \/ /\ Raise("MythDBError")  \* rec.update() raised
                /\ LogEvent("INFO", info)
                /\ UNCHANGED <<dbMarkup, breaks, sent>>
             \/ /\ dbMarkup' = markup'
                /\ breaks' = breaks + 1
                /\ Notify(markup', info)

\* HandleLog counting the line as a break.
HandleLog_Counts(flag, info) ==
  /\ pc' = "loop"
  /\ breaks' = breaks + 1
  /\ IF flag \in DOMAIN Level THEN LogEvent(Level[flag], info)
     ELSE LogEvent("WARNING", flag)
  /\ UNCHANGED <<raised, markup, dbMarkup, sent>>

\* HandleLog logging the payload of a line of unknown tag, not its tag.
HandleLog_LogsPayload(flag, info) ==
  /\ pc' = "loop"
  /\ IF flag \in DOMAIN Level THEN LogEvent(Level[flag], info)
     ELSE LogEvent("WARNING", info)
  /\ UNCHANGED <<raised, markup, dbMarkup, breaks, sent>>

\* Lines 214-218: a line of any other tag is logged, at the level of its tag
\* or as a warning.
HandleLog(flag, info) ==
  /\ pc' = "loop"
  /\ IF flag \in DOMAIN Level THEN LogEvent(Level[flag], info)
     ELSE LogEvent("WARNING", flag)
  /\ UNCHANGED <<raised, markup, dbMarkup, breaks, sent>>

\* Lines 196-218: flag, info = line.split('@', 1) raises ValueError when the
\* line has no '@'.
ProcessLine(l) ==
  LET parts == Split(l)
  IN IF Len(parts) # 2
       THEN /\ Raise("ValueError")
            /\ UNCHANGED <<markup, dbMarkup, breaks, sent, cutsRead, logged>>
     ELSE IF parts[1] = <<"cut">>
       THEN /\ cutsRead' = cutsRead + 1
            /\ HandleCut(parts[2])
     ELSE /\ HandleLog(parts[1], parts[2])
          /\ UNCHANGED cutsRead

\* Lines 193-220: one turn of the loop: readline() gives the next line of the
\* detector, or the empty string at end-of-stream.
ReadLine ==
  /\ pc = "loop"
  /\ \/ /\ eof' = TRUE
        /\ line' = <<>>
        /\ pc' = "finish"
        /\ UNCHANGED <<raised, markup, dbMarkup, breaks, sent, cutsRead,
                       linesRead, logged>>
     \/ /\ linesRead < MaxLines
        /\ linesRead' = linesRead + 1
        /\ \E l \in DetectorLines : line' = l /\ ProcessLine(l)
        /\ UNCHANGED eof
  /\ UNCHANGED <<idVars, jobVars, commflagged, dbCommflagged, marked, procVars,
                 exitCode>>

\* SignalFinished without rec.update(): the status is set on the object only.
SignalFinished_NoUpdate ==
  /\ pc = "finish"
  /\ commflagged' = COMM_FLAG_DONE
  /\ pc' = "report"
  /\ UNCHANGED <<idVars, jobVars, markup, marked, loopVars, procVars, exitCode,
                 raised, dbCommflagged, dbMarkup>>

\* Lines 223-224: commflagged = 1, rec.update().
SignalFinished ==
  /\ pc = "finish"
  /\ commflagged' = COMM_FLAG_DONE
  /\ \/ /\ dbCommflagged' = COMM_FLAG_DONE
        /\ dbMarkup' = markup
        /\ pc' = "report" /\ UNCHANGED raised
     \/ /\ Raise("MythDBError")
        /\ UNCHANGED <<dbCommflagged, dbMarkup>>
  /\ UNCHANGED <<idVars, jobVars, markup, marked, loopVars, procVars, exitCode>>

\* Lines 226-229: the break count goes to the job record; without a job the
\* AttributeError is passed over.
ReportJob ==
  /\ pc = "report"
  /\ IF job = "Job"
       THEN \/ /\ JobUpdate(JOB_FINISHED, "Detected", breaks)
               /\ pc' = "sleep" /\ UNCHANGED raised
            \/ /\ JobUpdateFails
               /\ Raise("MythDBError")
     ELSE /\ pc' = "sleep"
          /\ UNCHANGED <<raised, jobVars>>
  /\ UNCHANGED <<idVars, recVars, loopVars, procVars, exitCode>>

\* Lines 233-234 and the return of main(): exit status 0.
Finish ==
  /\ pc = "sleep"
  /\ Exit(0)
  /\ CleanUp
  /\ UNCHANGED <<idVars, jobVars, recVars, loopVars, procs, signalled>>

\* The handler also taking back the recording's status.
Handler_ResetsFlag ==
  /\ pc = "handler"
  /\ IF job = "Job"
       THEN \/ JobUpdate(JOB_ERRORED, "Failed.", 0)
            \/ JobUpdateFails
     ELSE UNCHANGED jobVars
  /\ commflagged' = COMM_FLAG_NOT_FLAGGED
  /\ dbCommflagged' = COMM_FLAG_NOT_FLAGGED
  /\ Exit(1)
  /\ CleanUp
  /\ UNCHANGED <<idVars, markup, dbMarkup, marked, loopVars, procs, signalled>>

\* The handler killing the processes it has started.
Handler_KillsPipeline ==
  /\ pc = "handler"
  /\ IF job = "Job"
       THEN \/ JobUpdate(JOB_ERRORED, "Failed.", 0)
            \/ JobUpdateFails
     ELSE UNCHANGED jobVars
  /\ signalled' = Started
  /\ Exit(1)
  /\ CleanUp
  /\ UNCHANGED <<idVars, recVars, loopVars, procs>>

\* The handler without the job.update() of line 249.
Handler_NoJobUpdate ==
  /\ pc = "handler"
  /\ Exit(1)
  /\ CleanUp
  /\ UNCHANGED <<idVars, jobVars, recVars, loopVars, procs, signalled>>

\* Lines 236-278: the handler: job.update() in a try of its own (an unbound
\* or None job, or a failing update, is passed over), then sys.exit(1).
Handler ==
  /\ pc = "handler"
  /\ IF job = "Job"
       THEN \/ JobUpdate(JOB_ERRORED, "Failed.", 0)
            \/ JobUpdateFails
     ELSE UNCHANGED jobVars
  /\ Exit(1)
  /\ CleanUp
  /\ UNCHANGED <<idVars, recVars, loopVars, procs, signalled>>

Next ==
  \/ Connect
  \/ ResolveIdentity
  \/ Lookup
  \/ FindFile
  \/ ResolvePreset
  \/ StartProcess
  \/ MarkInProgress
  \/ ReadLine
  \/ SignalFinished
  \/ ReportJob
  \/ Finish
  \/ Handler

Spec == Init /\ [][Next]_vars

\* The run with its scheduling: main() is one thread, and once it has left
\* the loop it does take every step it can take (the two record updates,
\* the sleep and return, the handler).
FairSpec ==
  Spec /\ WF_vars(SignalFinished \/ ReportJob \/ Finish \/ Handler)

\* Preset resolution on its own: main() at line 167, the recording found and
\* its file accessible, for every preset option.
PresetInit ==
  /\ pc = "preset"
  /\ args \in {[jobid |-> TRUE, chanid |-> FALSE, starttime |-> FALSE,
                preset |-> p.preset, presetfile |-> p.presetfile] :
                 p \in AllPresets}
  /\ job = "Job"
  /\ starttime = "valid"
  /\ sg = "found"
  /\ param = argval
  /\ jobStatus = JOB_RUNNING
  /\ jobComment = [text |-> "", n |-> 0]
  /\ dbCommflagged = COMM_FLAG_NOT_FLAGGED
  /\ dbMarkup = <<>>
  /\ commflagged = dbCommflagged
  /\ markup = dbMarkup
  /\ procs = <<>>
  /\ signalled = {}
  /\ reaped = {}
  /\ line = <<>>
  /\ logged = [level |-> "none", msg |-> <<>>]
  /\ linesRead = 0
  /\ cutsRead = 0
  /\ breaks = 0
  /\ sent = <<>>
  /\ eof = FALSE
  /\ raised = "none"
  /\ exitCode = -1
  /\ marked = FALSE
  /\ updateLost = FALSE

PresetNext == ResolvePreset \/ StartProcess \/ Handler

PresetSpec == PresetInit /\ [][PresetNext]_vars

\* ----------------------------------------------------------------- claims
HasNoSeparator(l) == l # <<>> /\ FirstAt(l, 1) = 0

IsCut(l) == Len(Split(l)) = 2 /\ Split(l)[1] = <<"cut">>

MalformedCut(l) == IsCut(l) /\ Len(FindAll(Split(l)[2])) < 2

\* C1: after a detector line with no '@' separator the event loop is still
\* running (it is back at readline()) and no exception has ended the run.
C1_NoSeparatorLineSurvives ==
  HasNoSeparator(line) => (pc = "loop" /\ raised = "none")

\* C2: after a 'cut' line whose payload holds fewer than two runs of digits
\* the loop is still running: it is back at readline() with nothing raised.
C2_MalformedCutSurvives ==
  MalformedCut(line) => (pc = "loop" /\ raised = "none")

\* C3 as stated: whenever a pipeline process has been started, the run has
\* already cleared the markup and persisted the in-progress status.
C3_MarkedBeforePipeline ==
  procs # <<>> => (marked /\ dbCommflagged # COMM_FLAG_NOT_FLAGGED)

\* C3 as amended: the markup is cleared and the in-progress status persisted
\* after the three processes are started and before the first line of the
\* detector's output is read.
C3_MarkedBeforeFirstRead ==
  /\ (pc = "loop" /\ linesRead = 0)
       => (dbCommflagged = COMM_FLAG_PROCESSING /\ dbMarkup = <<>>)
  /\ (linesRead > 0 \/ eof) => marked
  /\ marked => procs = Pipeline

C3_Witness ==
  pc = "loop" /\ linesRead = 0 /\ marked /\ procs = Pipeline /\ dbMarkup = <<>>

\* C4: a run that saw end-of-stream with nothing raised ends with the status
\* DONE persisted, the break count (the number of 'cut' lines read) reported
\* to the job if there is one, and exit status 0; and a run that saw
\* end-of-stream does end.
C4_Outcome ==
  (pc = "exited" /\ eof /\ raised = "none")
    => /\ dbCommflagged = COMM_FLAG_DONE
       /\ exitCode = 0
       /\ breaks = cutsRead
       /\ Len(dbMarkup) = 2 * cutsRead
       /\ job = "Job" => /\ jobStatus = JOB_FINISHED
                         /\ jobComment = [text |-> "Detected", n |-> cutsRead]

C4_EndOfStreamEndsDone == [](C4_Outcome) /\ (eof ~> pc = "exited")

C4_Witness ==
  /\ pc = "exited" /\ eof /\ raised = "none" /\ job = "Job"
  /\ cutsRead = 1 /\ linesRead = 2 /\ exitCode = 0
  /\ jobStatus = JOB_FINISHED

\* The status of the recording as this run has set it.
RecStatus ==
  IF ~marked THEN "PENDING"
  ELSE IF dbCommflagged = COMM_FLAG_PROCESSING THEN "IN_PROGRESS"
  ELSE IF dbCommflagged = COMM_FLAG_DONE THEN "DONE"
  ELSE "OTHER"

C6_FileNotFound ==
  /\ [](sg = "None" => procs = <<>> /\ ~marked /\ pc \in {"handler", "exited"})
  /\ []((sg = "None" /\ pc = "exited")
          => /\ exitCode = 1
             /\ (job = "Job" /\ ~updateLost) => jobStatus = JOB_ERRORED)
  /\ [][sg' # "found" => UNCHANGED <<dbCommflagged, dbMarkup, procVars>>]_vars

C6_Witness ==
  /\ sg = "None" /\ pc = "exited" /\ exitCode = 1 /\ job = "Job"
  /\ jobStatus = JOB_ERRORED /\ dbMarkup = StaleMarkup /\ raised = "none"

\* C7: every exception goes to the handler, the run then exits with status
\* 1, with the job (if there is one) ERRORED unless that update failed too.
C7_FailureCaught ==
  /\ raised # "none" => pc \in {"handler", "exited"}
  /\ (raised # "none" /\ pc = "exited")
       => /\ exitCode = 1
          /\ (job = "Job" /\ ~updateLost) => jobStatus = JOB_ERRORED

C7_Witness ==
  /\ raised = "OSError" /\ pc = "exited" /\ exitCode = 1
  /\ job = "Job" /\ jobStatus = JOB_ERRORED

\* The update of the handler has failed and the run has still exited with 1.
C7_WitnessUpdateFailed ==
  /\ raised # "none" /\ pc = "exited" /\ exitCode = 1
  /\ job = "Job" /\ updateLost /\ jobStatus = JOB_RUNNING

\* Neither a job id nor a complete chanid/starttime pair.
IdentityMissing == ~args.jobid /\ ~(args.chanid /\ args.starttime)

\* Both modes given together.
IdentityConflicting == args.jobid /\ args.chanid /\ args.starttime

\* C8 as stated: with missing or conflicting identity inputs the run never
\* gets past the identity step: no process is started and it exits with 1.
C8_UsageErrorsFatal ==
  (IdentityMissing \/ IdentityConflicting)
    => /\ procs = <<>>
       /\ pc \in {"connect", "identity", "handler", "exited"}
       /\ pc = "exited" => exitCode = 1

\* C8 as amended: missing identity inputs are fatal (exit status 1 at the
\* identity step, no job looked up, no process started); a job id given
\* together with a chanid/starttime pair is taken as the identity.
C8_MissingIdentityFatal ==
  /\ IdentityMissing
       => /\ procs = <<>> /\ job = "unbound" /\ sg = "unset" /\ ~marked
          /\ pc \in {"connect", "identity", "handler", "exited"}
          /\ pc = "exited" => exitCode = 1
  /\ (args.jobid /\ job # "unbound") => job = "Job"

C8_Witness ==
  IdentityMissing /\ pc = "exited" /\ exitCode = 1 /\ raised = "none"

\* The marks of the first n breaks this run has persisted.
MarksOf(n) == SubSeq(dbMarkup, 1, 2 * n)

\* C9: the step that gets an answer to an update message, 'OK' or not, goes
\* back to readline() with nothing raised and the break persisted; and the
\* i-th message carries the skip list computed from the first i breaks,
\* whatever the answers to the messages before it.
C9_MessagesComplete ==
  marked =>
    /\ Len(sent) <= breaks /\ 2 * breaks = Len(dbMarkup)
    /\ \A i \in 1..Len(sent) :
         sent[i].skiplist = FormatSkipList(MarksOf(i))

C9_NotOkGoesOn ==
  /\ [](C9_MessagesComplete)
  /\ [][sent' # sent
          => /\ pc' = "loop" /\ raised' = "none"
             /\ Len(sent') = Len(sent) + 1
             /\ dbMarkup' = markup' /\ Len(dbMarkup') = Len(dbMarkup) + 2
             /\ SubSeq(sent', 1, Len(sent)) = sent]_vars

C9_Witness ==
  /\ pc = "loop" /\ Len(sent) = 2 /\ sent[1].result = "ERROR"
  /\ Len(sent[2].skiplist) = 2 /\ raised = "none"

\* C10: while nothing has been raised, the messages sent, the break counter
\* and the 'cut' lines read are equal in number.
C10_OnePerBreak ==
  raised = "none" => (Len(sent) = breaks /\ breaks = cutsRead)

C10_Witness ==
  /\ pc = "loop" /\ linesRead = 3 /\ cutsRead = 2 /\ breaks = 2
  /\ Len(sent) = 2

\* The break regions of a list of marks, pair by pair in the order the marks
\* were appended, each as the four numbers of 'start:kind,end:kind'.
Regions(m) ==
  [k \in 1..(Len(m) \div 2) |->
     <<m[2 * k - 1].mark, MARK_COMM_START, m[2 * k].mark, MARK_COMM_END>>]

\* Each mark lies after the one appended before it: the breaks are in
\* increasing order and do not touch.
Increasing(m) == \A j \in 1..(Len(m) - 1) : m[j].mark < m[j + 1].mark

\* C11 as stated: the skip list of the i-th message is the list of the first
\* i break regions appended since the markup was cleared, in insertion order.
C11_SkipListIsInsertionOrder ==
  marked => \A i \in 1..Len(sent) : sent[i].skiplist = Regions(MarksOf(i))

\* C11 as amended: when the breaks were appended in increasing order without
\* touching, the skip list of the i-th message is the list of the first i
\* break regions, each as start:STARTKIND,end:ENDKIND, in insertion order.
C11_SkipListOfIncreasingBreaks ==
  marked =>
    \A i \in 1..Len(sent) :
      Increasing(MarksOf(i)) => sent[i].skiplist = Regions(MarksOf(i))

C11_Witness ==
  /\ pc = "loop" /\ Len(sent) = 3 /\ Increasing(MarksOf(3))
  /\ sent[3].skiplist = <<<<7, MARK_COMM_START, 9, MARK_COMM_END>>,
                          <<12, MARK_COMM_START, 15, MARK_COMM_END>>,
                          <<20, MARK_COMM_START, 30, MARK_COMM_END>>>>

\* The two numbers a 'cut' line of the detector stands for.
CutOf(l) ==
  CASE l = <<"cut", "@", "s", " ", "1", "2", "-", "1", "5", "m">> -> <<12, 15>>
    [] l = <<"cut", "@", "2", "0", " ", "3", "0">> -> <<20, 30>>
    [] l = <<"cut", "@", "7", "-", "9", "-", "3">> -> <<7, 9>>
    [] OTHER -> <<>>

\* The marks of one break.
BreakMarks(c) ==
  <<[mark |-> c[1], type |-> MARK_COMM_START],
    [mark |-> c[2], type |-> MARK_COMM_END]>>

\* C12: at every readline() all marks are persisted; once the markup is
\* cleared the persisted list changes only by the step of a 'cut' line, which
\* appends that line's break at its end, and the message of that step carries
\* the skip list of the list as persisted.
C12_PersistedListGrows ==
  /\ [](pc = "loop" => dbMarkup = markup)
  /\ [][marked =>
          /\ dbMarkup' # dbMarkup
               => /\ linesRead' = linesRead + 1
                  /\ CutOf(line') # <<>>
                  /\ dbMarkup' = dbMarkup \o BreakMarks(CutOf(line'))
          /\ sent' # sent
               => /\ dbMarkup' # dbMarkup
                  /\ sent' = Append(sent, sent'[Len(sent')])
                  /\ sent'[Len(sent')].skiplist = FormatSkipList(dbMarkup')
       ]_vars

C12_Witness ==
  /\ pc = "loop" /\ linesRead = 3
  /\ dbMarkup = BreakMarks(<<20, 30>>) \o BreakMarks(<<12, 15>>)
  /\ Len(sent) = 2

\* C16: the step of a 'cut' line with two integers in its payload appends
\* START at the first and END at the second to rec.markup, and these two
\* marks are what it persists.
C16_CutNumbersInOrder ==
  [][(linesRead' # linesRead /\ CutOf(line') # <<>>)
       => /\ markup' = markup \o BreakMarks(CutOf(line'))
          /\ dbMarkup' \in {dbMarkup, dbMarkup \o BreakMarks(CutOf(line'))}
    ]_vars

C16_Witness ==
  /\ line = <<"cut", "@", "s", " ", "1", "2", "-", "1", "5", "m">>
  /\ pc = "loop"
  /\ dbMarkup = BreakMarks(<<12, 15>>)

\* The number of marks of one kind in a list of marks.
CountMarks(m, type) == Cardinality({i \in 1..Len(m) : m[i].type = type})

\* C20: the persisted markup holds as many START marks as END marks.
C20_StartsMatchEnds ==
  CountMarks(dbMarkup, MARK_COMM_START) = CountMarks(dbMarkup, MARK_COMM_END)

\* A cut with one integer has failed between the two appends: rec.markup
\* holds a START mark that the persisted markup does not.
C20_Witness ==
  /\ raised = "IndexError" /\ pc = "exited"
  /\ CountMarks(markup, MARK_COMM_START) = CountMarks(markup, MARK_COMM_END) + 1
  /\ Len(dbMarkup) = 2

\* The log event a line of the detector with a tag other than 'cut' stands
\* for: its payload at the level of a known tag, else the tag at WARNING.
LogOf(l) ==
  CASE l = <<"info", "@", "s">> -> [level |-> "INFO", msg |-> <<"s">>]
    [] l = <<"err", "@", "s">> -> [level |-> "ERR", msg |-> <<"s">>]
    [] l = <<"debug", "@", "s", "@", "s">>
         -> [level |-> "DEBUG", msg |-> <<"s", "@", "s">>]
    [] l = <<"zap", "@", "s">> -> [level |-> "WARNING", msg |-> <<"zap">>]
    [] OTHER -> [level |-> "none", msg |-> <<>>]

\* C17: the step of a line whose tag is not 'cut' logs that one event and
\* goes back to readline(); markup, status, break counter, messages and the
\* job record are as before.
C17_LogLineOnlyLogs ==
  [][(linesRead' # linesRead /\ LogOf(line').level # "none")
       => /\ logged' = LogOf(line')
          /\ pc' = "loop" /\ raised' = "none"
          /\ UNCHANGED <<markup, dbMarkup, commflagged, dbCommflagged, breaks,
                         sent, cutsRead, jobStatus, jobComment, procs>>
    ]_vars

C17_Witness ==
  /\ pc = "loop" /\ line = <<"zap", "@", "s">>
  /\ logged = [level |-> "WARNING", msg |-> <<"zap">>]
  /\ breaks = 1 /\ Len(sent) = 1 /\ Len(dbMarkup) = 2

\* C18: main() signals no process; it is past the event loop (and the status
\* is DONE, and the exit status 0) only when readline() has returned the
\* empty string, and the loop is left only for that or for the handler.
C18_OnlyEndOfStreamEndsLoop ==
  /\ [](signalled = {})
  /\ [](pc \in {"finish", "report", "sleep"} => eof /\ line = <<>>)
  /\ []((RecStatus = "DONE" \/ exitCode = 0) => eof)
  /\ [][(pc = "loop" /\ pc' # "loop")
          => \/ pc' = "finish" /\ eof' /\ line' = <<>> /\ linesRead' = linesRead
             \/ pc' = "handler" /\ raised' # "none"]_vars

C18_Witness ==
  /\ pc = "exited" /\ exitCode = 0 /\ eof /\ RecStatus = "DONE"
  /\ procs = Pipeline /\ signalled = {} /\ linesRead = 2

\* The processes started are the first of reader, transcoder, detector.
OnePipeline == Len(procs) <= Len(Pipeline) /\ procs = SubSeq(Pipeline, 1, Len(procs))

\* C19 as stated: a run that saw end-of-stream has one pipeline and has
\* reaped its three processes when it ends.
C19_PipelineReapedAtEnd ==
  /\ OnePipeline
  /\ (pc = "exited" /\ eof) => reaped = {"p1", "p2", "p3"}

\* C19 as amended: each run starts one pipeline, its three processes once
\* each and in order, all of them before the first readline(); main() waits
\* for none of them: until the run ends none is reaped, and at its end those
\* that have ended by then are, which may be all, some or none.
C19_OnePipelineNotWaitedFor ==
  /\ OnePipeline
  /\ (eof \/ linesRead > 0) => procs = Pipeline
  /\ pc # "exited" => reaped = {}
  /\ reaped \subseteq Started

C19_Witness ==
  pc = "exited" /\ eof /\ exitCode = 0 /\ procs = Pipeline /\ reaped = {"p3"}

\* ----------------------------------------------------------------- presets
\* The k-th comma of a text (0 for k = 0, one past its end when it has
\* fewer), and the field between the (k-1)-th and the k-th.
NthComma(text, k) ==
  LET commas == {i \in 1..Len(text) : text[i] = ","}
      upTo(i) == Cardinality({j \in commas : j <= i})
  IN IF k = 0 THEN 0
     ELSE IF k > Cardinality(commas) THEN Len(text) + 1
     ELSE CHOOSE i \in commas : upTo(i) = k

NthField(text, k) ==
  SubSeq(text, NthComma(text, k - 1) + 1, NthComma(text, k) - 1)

NumFields(text) == Cardinality({i \in 1..Len(text) : text[i] = ","}) + 1

\* What each field says, in hundredths: <<>> for the fields that are empty
\* or no number.
FieldValue(f) ==
  CASE f = <<"-", "7", "0">> -> <<-7000>>
    [] f = <<" ", "-", "7", "0">> -> <<-7000>>
    [] f = <<"0", ".", "2">> -> <<20>>
    [] f = <<" ", "0", ".", "2">> -> <<20>>
    [] f = <<"1", "5", "0">> -> <<15000>>
    [] f = <<"6">> -> <<600>>
    [] OTHER -> <<>>

\* The defaults overridden by the fields of a text from field 'first' on,
\* one field per name, in the order of the names.
Overridden(text, first) ==
  [k \in 1..6 |->
     IF /\ k + first - 1 <= NumFields(text)
        /\ FieldValue(NthField(text, k + first - 1)) # <<>>
       THEN FieldValue(NthField(text, k + first - 1))[1]
     ELSE argval[k]]

\* C13: for every --preset string of at most six comma-separated fields,
\* resolving it yields the defaults (-75, 0.16, 6, 120, 120, 0.48)
\* overridden, name by name in the order thresh, minquiet, mindetect,
\* minbreak, maxsep, pad, by exactly the fields that are numbers; an empty
\* or unparseable field keeps its default, and the run goes on to start the
\* pipeline.
C13_ExplicitPresetOverrides ==
  [][(pc = "preset" /\ args.preset # <<>>) =>
       /\ param' = Overridden(args.preset, 1)
       /\ pc' = "spawn"
       /\ raised' = "none"]_vars

\* Scenario A: "-70,0.2,,150,," resolves to (-70, 0.2, 6, 150, 120, 0.48).
C13_Witness ==
  /\ pc = "spawn"
  /\ args.preset = ScenarioA
  /\ param = <<-7000, 20, 600, 15000, 12000, 48>>

\* The lines of a preset file that are rules matching the title "Ab" or the
\* callsign "CD", and those that are not.
MatchingLines ==
  { <<"a", "b", ",", " ", "-", "7", "0", ",", ",", "x">>,
    <<" ", "c", " ", ",", ",", "0", ".", "2">>,
    <<",", ",", ",", "6">>,
    <<"A", ".">> }

\* The first matching line of a file, 0 when it has none.
FirstMatching(lines) ==
  LET m == {i \in 1..Len(lines) : lines[i] \in MatchingLines}
  IN IF m = {} THEN 0 ELSE CHOOSE i \in m : \A j \in m : i <= j

\* The lines whose pattern is no regular expression.
BadPatternLines == { <<"*", ",", "-", "7", "0">> }

\* A line with a bad pattern comes before the first matching line, or the
\* file has one and no matching line.
BadPatternFirst(lines) ==
  \E i \in 1..Len(lines) :
     /\ lines[i] \in BadPatternLines
     /\ FirstMatching(lines) = 0 \/ i < FirstMatching(lines)

UsesFile == args.preset = <<>> /\ args.presetfile.given

\* C14: for every preset file, resolution applies the overrides of the first
\* non-blank, non-comment line whose pattern matches the title or the
\* callsign, and of no other line.
C14_FirstMatchDetermines ==
  [][(/\ pc = "preset" /\ UsesFile /\ args.presetfile.exists
      /\ FirstMatching(args.presetfile.lines) # 0) =>
       LET lines == args.presetfile.lines
       IN param' = Overridden(lines[FirstMatching(lines)], 2)]_vars

\* C14 for the files where no bad pattern comes before the first match.
C14_FirstMatchOfValidRules ==
  [][(/\ pc = "preset" /\ UsesFile /\ args.presetfile.exists
      /\ FirstMatching(args.presetfile.lines) # 0
      /\ ~BadPatternFirst(args.presetfile.lines)) =>
       LET lines == args.presetfile.lines
       IN /\ param' = Overridden(lines[FirstMatching(lines)], 2)
          /\ pc' = "spawn"]_vars

\* A later matching line is passed over: "A." before ",,,6".
C14_WitnessLaterMatchIgnored ==
  /\ pc = "spawn"
  /\ UsesFile
  /\ args.presetfile.lines = << <<"A", ".">>, <<",", ",", ",", "6">> >>
  /\ param = argval

\* C15: when the preset file is missing, or holds no line matching the title
\* or the callsign, resolution does not fail the run: the values are the
\* pure defaults and the run goes on to start the pipeline.
C15_NoMatchKeepsDefaults ==
  [][(/\ pc = "preset" /\ UsesFile
      /\ \/ ~args.presetfile.exists
         \/ FirstMatching(args.presetfile.lines) = 0) =>
       /\ param' = argval
       /\ pc' = "spawn"
       /\ raised' = "none"]_vars

\* C15 for the files that hold no bad pattern.
C15_NoMatchOfValidRules ==
  [][(/\ pc = "preset" /\ UsesFile
      /\ \/ ~args.presetfile.exists
         \/ /\ FirstMatching(args.presetfile.lines) = 0
            /\ ~BadPatternFirst(args.presetfile.lines)) =>
       /\ param' = argval
       /\ pc' = "spawn"
       /\ raised' = "none"]_vars

\* A file with no matching line ends the run in the handler.
C15_WitnessBadPattern ==
  /\ pc = "handler"
  /\ raised = "re.error"
  /\ UsesFile
  /\ FirstMatching(args.presetfile.lines) = 0

\* A missing file leaves the defaults and the run goes on.
C15_WitnessMissingFile ==
  /\ pc = "spawn"
  /\ UsesFile
  /\ ~args.presetfile.exists
  /\ param = argval

====
